---- MODULE Spec2Model ----
(***************************************************************************)
(* The TravelMap component (src/src/TravelMap.tsx) as a state machine.     *)
(*                                                                         *)
(* State: the props handed in by the parent, the five useState cells, the  *)
(* dependency arrays React remembers for the two effects, the Leaflet map  *)
(* view, and the element tree produced by the last render.  Steps: one     *)
(* action per event handler and per prop update, one for the render        *)
(* function, one for each useEffect callback.                              *)
(*                                                                         *)
(* Strings that are searched are sequences of characters (a CJK character  *)
(* is written as its pinyin in angle brackets), so toLowerCase and         *)
(* includes are computed.  React compares the dependencies of an effect     *)
(* with Object.is against their values at the previous render; for an       *)
(* array that is the question whether it was replaced by another array     *)
(* since that render, which the model records in a flag per array.         *)
(***************************************************************************)
EXTENDS Integers, Sequences, FiniteSets, TLC

-----------------------------------------------------------------------------
(* JavaScript values *)

Undefined == "<undefined>"
Null == "<null>"

\* an optional number: rating?: number, and number | null
NoRating == [present |-> FALSE, value |-> 0]
Rating(r) == [present |-> TRUE, value |-> r]
NullNumber == [present |-> FALSE, value |-> 0]
Number(n) == [present |-> TRUE, value |-> n]

\* the value of an expression of type MapStyle that evaluated to undefined
UndefinedStyle == [name |-> Undefined, url |-> Undefined, attribution |-> Undefined]

\* Boolean(x) for an optional string (undefined and '' are falsy)
TruthyString(s) == s # Undefined /\ s # ""

\* Boolean(x) for an optional integer (undefined and 0 are falsy)
TruthyNumber(n) == n.present /\ n.value # 0

\* String.prototype.toLowerCase on the alphabet the model uses
LowerChar(c) ==
  CASE c = "S" -> "s"
    [] c = "H" -> "h"
    [] c = "B" -> "b"
    [] OTHER -> c

ToLowerCase(s) == [i \in 1..Len(s) |-> LowerChar(s[i])]

\* String.prototype.includes
Includes(s, t) ==
  \E i \in 0..(Len(s) - Len(t)) : SubSeq(s, i + 1, i + Len(t)) = t

-----------------------------------------------------------------------------
(* The inputs the model draws from *)

Shanghai ==
  [id |-> 1, name |-> <<"<shang>", "<hai>">>, nameEn |-> <<"S", "h">>,
   coordinates |-> <<31, 121>>,
   description |-> <<"<gu>", "<xiang>">>, descriptionEn |-> <<"h", "o", "m", "e">>,
   category |-> "juzhu", rating |-> Rating(3)]

Beijing ==
  [id |-> 2, name |-> <<"<bei>", "<jing>">>, nameEn |-> <<"B", "e", "i">>,
   coordinates |-> <<39, 116>>,
   description |-> <<"<shou>", "<du>">>, descriptionEn |-> <<"S", "H", "o", "p">>,
   category |-> "lvxing", rating |-> Rating(7)]

Sydney ==
  [id |-> 3, name |-> <<"<xi>", "<ni>">>, nameEn |-> <<"S", "y", "d">>,
   coordinates |-> <<-33, 151>>,
   description |-> <<"<hai>", "<gang>">>, descriptionEn |-> <<"b", "a", "y">>,
   category |-> "juzhu", rating |-> Rating(0)]

Airport ==
  [id |-> 4, name |-> <<"<ji>", "<chang>">>, nameEn |-> <<"H", "u", "b">>,
   coordinates |-> <<1, 103>>,
   description |-> <<>>, descriptionEn |-> <<>>,
   category |-> "", rating |-> Rating(-1)]

Somewhere ==
  [id |-> 5, name |-> <<"<mou>">>, nameEn |-> <<"x">>,
   coordinates |-> <<-1, -70>>,
   description |-> <<>>, descriptionEn |-> <<>>,
   category |-> Undefined, rating |-> NoRating]

LocationLists ==
  { <<>>,
    <<Beijing, Shanghai, Sydney>>,
    <<Beijing, Airport, Somewhere>> }

SearchTerms == { <<>>, <<"S", "H">>, <<"<hai>">> }

Languages == {"zh", "en"}

\* lines 54-75 (url and attribution abbreviated to tokens)
defaultMapStyles ==
  << [name |-> "Standard", url |-> "osm", attribution |-> "OpenStreetMap"],
     [name |-> "Dark", url |-> "carto-dark", attribution |-> "OpenStreetMap CARTO"],
     [name |-> "Terrain", url |-> "esri-topo", attribution |-> "Esri topo"],
     [name |-> "Satellite", url |-> "esri-imagery", attribution |-> "Esri imagery"] >>

\* catalogs a caller may pass instead: one that reuses the name Dark for
\* other tiles, and the empty one
CustomMapStyles ==
  << [name |-> "Dark", url |-> "my-dark", attribution |-> "me"] >>

\* the mapStyles prop: left out, or one of two lists
MapStylesOmitted == [omitted |-> TRUE, val |-> <<>>]
MapStylesGiven(list) == [omitted |-> FALSE, val |-> list]
MapStylesProps == {MapStylesOmitted, MapStylesGiven(CustomMapStyles), MapStylesGiven(<<>>)}

-----------------------------------------------------------------------------
(* Pure parts of the component *)

\* lines 145-150: the predicate of the search filter, term already lower-cased
SearchMatches(loc, term) ==
  \/ Includes(ToLowerCase(loc.name), term)
  \/ Includes(ToLowerCase(loc.nameEn), term)
  \/ Includes(ToLowerCase(loc.description), term)
  \/ Includes(ToLowerCase(loc.descriptionEn), term)

\* Array.prototype.filter
RECURSIVE FilterSeq(_, _)
FilterSeq(s, keep) ==
  IF s = <<>> THEN <<>>
  ELSE IF Head(s) \in keep THEN <<Head(s)>> \o FilterSeq(Tail(s), keep)
       ELSE FilterSeq(Tail(s), keep)

Range(s) == {s[i] : i \in 1..Len(s)}

\* FilterLocations with the category filter in an else branch of the search
FilterLocationsEitherOr(locs, term, cat) ==
  IF term # <<>>
  THEN FilterSeq(locs, {l \in Range(locs) : SearchMatches(l, ToLowerCase(term))})
  ELSE IF cat # Null /\ cat # ""
       THEN FilterSeq(locs, {l \in Range(locs) : l.category = cat})
       ELSE locs

\* lines 140-156: the body of the filter effect up to setFilteredLocations
FilterLocations(locs, term, cat) ==
  LET bySearch ==
        IF term # <<>>
        THEN FilterSeq(locs, {l \in Range(locs) : SearchMatches(l, ToLowerCase(term))})
        ELSE locs
  IN  IF cat # Null /\ cat # ""
      THEN FilterSeq(bySearch, {l \in Range(bySearch) : l.category = cat})
      ELSE bySearch

\* new Set(iterable) keeps insertion order and drops repeats; Array.from
\* gives that order back
RECURSIVE ArrayFromSet(_, _)
ArrayFromSet(s, seen) ==
  IF s = <<>> THEN <<>>
  ELSE IF Head(s) \in seen THEN ArrayFromSet(Tail(s), seen)
       ELSE <<Head(s)>> \o ArrayFromSet(Tail(s), seen \cup {Head(s)})

\* line 210: Array.from(new Set(locations.map(loc => loc.category))).filter(Boolean)
CategoryOptions(locs) ==
  LET cats == [i \in 1..Len(locs) |-> locs[i].category]
      uniq == ArrayFromSet(cats, {})
  IN  FilterSeq(uniq, {c \in Range(uniq) : TruthyString(c)})

\* line 130: Array(5)
StarSlots == 5

\* renderRating with index <= rating for index < rating
renderRatingInclusive(rating) ==
  [index \in 1..StarSlots |-> (index - 1) <= rating]

\* lines 129-136: one entry per slot, TRUE for a gold star
renderRating(rating) ==
  [index \in 1..StarSlots |-> (index - 1) < rating]

\* lines 319-324: the rating block exists only for a truthy rating
RatingBlock(loc) ==
  IF TruthyNumber(loc.rating) THEN renderRating(loc.rating.value) ELSE <<>>

Min2(a, b) == IF a < b THEN a ELSE b
Max2(a, b) == IF a > b THEN a ELSE b

\* line 92: L.latLngBounds(points) extends an empty box by each point in turn
RECURSIVE ExtendBounds(_, _)
ExtendBounds(box, locs) ==
  IF locs = <<>> THEN box
  ELSE LET p == Head(locs).coordinates
       IN  ExtendBounds(
             [sw |-> <<Min2(box.sw[1], p[1]), Min2(box.sw[2], p[2])>>,
              ne |-> <<Max2(box.ne[1], p[1]), Max2(box.ne[2], p[2])>>],
             Tail(locs))

LatLngBounds(locs) ==
  LET p == Head(locs).coordinates
  IN  ExtendBounds([sw |-> p, ne |-> p], Tail(locs))

\* lines 78-84 and 117-118: the colour of a marker's icon
categoryColors(category) ==
  CASE category = "juzhu" -> "#4CAF50"
    [] category = "lvxing" -> "#2196F3"
    [] category = "shangwu" -> "#FF9800"
    [] category = "luguo" -> "#9C27B0"
    [] category = "default" -> "#F44336"
    [] OTHER -> Undefined

createIconColor(category) ==
  LET c == IF category = Undefined THEN "default" ELSE category
  IN  IF categoryColors(c) # Undefined THEN categoryColors(c) ELSE categoryColors("default")

\* lines 246-251: the label of a style option
StyleLabel(style, lang) ==
  IF lang = "zh"
  THEN CASE style.name = "Standard" -> "biaozhun"
         [] style.name = "Dark" -> "anse"
         [] style.name = "Terrain" -> "dixingtu"
         [] style.name = "Satellite" -> "weixingtu"
         [] OTHER -> style.name
  ELSE style.name

\* line 235: mapStyles.find(style => style.name === value)
RECURSIVE FindStyle(_, _)
FindStyle(styles, value) ==
  IF styles = <<>> THEN UndefinedStyle
  ELSE IF Head(styles).name = value THEN Head(styles)
       ELSE FindStyle(Tail(styles), value)

-----------------------------------------------------------------------------
(* State *)

VARIABLES
  \* props (lines 101-109)
  locationsProp, language, enableSearch, enableFilter, mapStylesProp,
  \* useState cells (lines 110-114)
  selectedLocation, currentMapStyle, searchTerm, filterCategory, filteredLocations,
  \* what React keeps between renders
  locations,         \* the `locations` binding of the last render
  mounted,           \* the first commit has happened
  filterDeps,        \* searchTerm and filterCategory at the last render
  locationsReplaced, \* the locations prop is another array than at the last render
  filteredReplaced,  \* filteredLocations is another array than at the last render
  filterPending,     \* the filter effect is scheduled for this commit
  fitPending,        \* the fit effect is scheduled for this commit
  pc,                \* "render", "fitEffect", "filterEffect", "idle" or "crashed"
  \* outside React
  view,              \* the view of the Leaflet map
  dom,               \* the element tree of the last render
  \* history of the update being processed
  lastEvent,         \* the event or prop update that started it, "none" when idle
  fitReplaced        \* kind of the view a map.fitBounds call replaced in it, or "none"

props == <<locationsProp, language, enableSearch, enableFilter, mapStylesProp>>
cells == <<selectedLocation, currentMapStyle, searchTerm, filterCategory, filteredLocations>>
hooks == <<locations, mounted, filterDeps, locationsReplaced, filteredReplaced,
           filterPending, fitPending>>
history == <<lastEvent, fitReplaced>>
vars == <<props, cells, hooks, pc, view, dom, history>>

\* the locations prop: left out, or an array
LocationsOmitted == [omitted |-> TRUE, val |-> <<>>]
LocationsGiven(list) == [omitted |-> FALSE, val |-> list]

\* line 108: mapStyles = defaultMapStyles
mapStyles == IF mapStylesProp.omitted THEN defaultMapStyles ELSE mapStylesProp.val

\* lines 103-104 and 258-260: the view MapContainer starts with
InitialView == [kind |-> "initial", center |-> <<35, 105>>, zoom |-> 5, bounds |-> <<>>]
\* the view after the user dragged or zoomed the map
UserView == [kind |-> "user", center |-> <<0, 0>>, zoom |-> 9, bounds |-> <<>>]
\* line 93: the view map.fitBounds(bounds, {padding: [50, 50]}) establishes
FitBounds(bounds) == [kind |-> "fit", center |-> <<>>, zoom |-> 0, bounds |-> <<bounds, <<50, 50>>>>]

\* lines 271-349: one Marker with its Popup
MarkerOf(location, lang) ==
  [key |-> location.id,
   position |-> location.coordinates,
   icon |-> createIconColor(location.category),
   title |-> IF lang = "zh" THEN location.name ELSE location.nameEn,
   text |-> IF lang = "zh" THEN location.description ELSE location.descriptionEn,
   category |-> IF TruthyString(location.category) THEN location.category ELSE "",
   stars |-> RatingBlock(location)]

\* RenderTree with the options of the category select taken from the
\* visible locations
RenderTreeOptionsOfVisible(locs, visible) ==
  [tree |-> TRUE,
   searchBox |-> enableSearch,
   searchValue |-> IF enableSearch THEN searchTerm ELSE <<>>,
   filterBox |-> enableFilter,
   filterValue |-> IF enableFilter /\ filterCategory # Null THEN filterCategory ELSE "",
   categoryOptions |-> IF enableFilter THEN CategoryOptions(visible) ELSE <<>>,
   styleValue |-> currentMapStyle.name,
   styleOptions |-> [i \in 1..Len(mapStyles) |->
                       [value |-> mapStyles[i].name, label |-> StyleLabel(mapStyles[i], language)]],
   tile |-> [url |-> currentMapStyle.url, attribution |-> currentMapStyle.attribution],
   markers |-> [i \in 1..Len(visible) |-> MarkerOf(visible[i], language)]]

\* lines 166-352: the element tree the render function returns
RenderTree(locs, visible) ==
  [tree |-> TRUE,
   searchBox |-> enableSearch,
   searchValue |-> IF enableSearch THEN searchTerm ELSE <<>>,
   filterBox |-> enableFilter,
   filterValue |-> IF enableFilter /\ filterCategory # Null THEN filterCategory ELSE "",
   categoryOptions |-> IF enableFilter THEN CategoryOptions(locs) ELSE <<>>,
   styleValue |-> currentMapStyle.name,
   styleOptions |-> [i \in 1..Len(mapStyles) |->
                       [value |-> mapStyles[i].name, label |-> StyleLabel(mapStyles[i], language)]],
   tile |-> [url |-> currentMapStyle.url, attribution |-> currentMapStyle.attribution],
   markers |-> [i \in 1..Len(visible) |-> MarkerOf(visible[i], language)]]

\* nothing on screen: before the first commit, and after a render threw
NoTree ==
  [tree |-> FALSE, searchBox |-> FALSE, searchValue |-> <<>>, filterBox |-> FALSE,
   filterValue |-> "", categoryOptions |-> <<>>, styleValue |-> "", styleOptions |-> <<>>,
   tile |-> [url |-> "", attribution |-> ""], markers |-> <<>>]

\* an event handler or the parent schedules a render
Begin(event) ==
  /\ lastEvent' = event
  /\ fitReplaced' = "none"
  /\ pc' = "render"

-----------------------------------------------------------------------------
(* Construction: the props of the first render and the initial useState values *)

Init ==
  /\ locationsProp \in {LocationsOmitted} \cup {LocationsGiven(l) : l \in LocationLists}
  /\ language \in Languages
  /\ enableSearch \in BOOLEAN
  /\ enableFilter \in BOOLEAN
  /\ mapStylesProp \in MapStylesProps
  /\ locations = locationsProp.val
  /\ selectedLocation = NullNumber
  /\ currentMapStyle = IF mapStyles = <<>> THEN UndefinedStyle ELSE mapStyles[1]
  /\ searchTerm = <<>>
  /\ filterCategory = Null
  /\ filteredLocations = locations
  /\ mounted = FALSE
  /\ filterDeps = [searchTerm |-> searchTerm, filterCategory |-> filterCategory]
  /\ locationsReplaced = FALSE
  /\ filteredReplaced = FALSE
  /\ filterPending = FALSE
  /\ fitPending = FALSE
  /\ pc = "render"
  /\ view = InitialView
  /\ dom = NoTree
  /\ lastEvent = "mount"
  /\ fitReplaced = "none"

-----------------------------------------------------------------------------
(* The render function and the two effects *)

\* line 102: locations = [] makes a new array on every render that gets none
LocationsIsNewArray == locationsProp.omitted \/ locationsReplaced

\* the filter effect with currentMapStyle as a fourth dependency (dom.tile
\* holds the style of the last render)
FilterEffectDueWithStyle ==
  \/ ~mounted
  \/ locationsProp.omitted \/ locationsReplaced
  \/ searchTerm # filterDeps.searchTerm
  \/ filterCategory # filterDeps.filterCategory
  \/ currentMapStyle.url # dom.tile.url

\* lines 139 and 159: React runs the filter effect on mount and when one of
\* [locations, searchTerm, filterCategory] is not Object.is-equal to its value
\* at the last render
FilterEffectDue ==
  \/ ~mounted
  \/ LocationsIsNewArray
  \/ searchTerm # filterDeps.searchTerm
  \/ filterCategory # filterDeps.filterCategory

\* the fit effect with the dependency array [map]: due on mount only
FitEffectDueOnMount == ~mounted

\* lines 90 and 95, with [locations, map] = [filteredLocations, the one map]
FitEffectDue == ~mounted \/ filteredReplaced

\* lines 101-353: one call of TravelMap with its commit.  Reading
\* currentMapStyle.name (line 233) throws when the cell holds undefined, and
\* React then unmounts the tree.
Render ==
  /\ pc = "render"
  /\ IF currentMapStyle = UndefinedStyle
     THEN /\ pc' = "crashed"
          /\ dom' = NoTree
          /\ UNCHANGED <<props, cells, hooks, view, history>>
     ELSE /\ locations' = locationsProp.val
          /\ dom' = RenderTree(locationsProp.val, filteredLocations)
          /\ filterPending' = FilterEffectDue
          /\ fitPending' = FitEffectDue
          /\ filterDeps' = [searchTerm |-> searchTerm, filterCategory |-> filterCategory]
          /\ locationsReplaced' = FALSE
          /\ filteredReplaced' = FALSE
          /\ mounted' = TRUE
          /\ pc' = "fitEffect"
          /\ UNCHANGED <<props, cells, view, history>>

\* lines 90-95: the effect of the child FitBoundsToLocations, which React
\* runs before the effects of its parent
FitBoundsToLocations ==
  /\ pc = "fitEffect"
  /\ IF fitPending /\ Len(filteredLocations) > 0
     THEN /\ view' = FitBounds(LatLngBounds(filteredLocations))
          /\ fitReplaced' = view.kind
     ELSE UNCHANGED <<view, fitReplaced>>
  /\ fitPending' = FALSE
  /\ pc' = "filterEffect"
  /\ UNCHANGED <<props, cells, locations, mounted, filterDeps, locationsReplaced,
                 filteredReplaced, filterPending, dom, lastEvent>>

\* lines 139-159: the filter effect; setFilteredLocations gets a new array,
\* so it always schedules another render.  Without it the update is done.
FilterEffect ==
  /\ pc = "filterEffect"
  /\ IF filterPending
     THEN /\ filteredLocations' = FilterLocations(locations, searchTerm, filterCategory)
          /\ filteredReplaced' = TRUE
          /\ pc' = "render"
          /\ UNCHANGED history
     ELSE /\ pc' = "idle"
          /\ lastEvent' = "none"
          /\ fitReplaced' = "none"
          /\ UNCHANGED <<filteredLocations, filteredReplaced>>
  /\ filterPending' = FALSE
  /\ UNCHANGED <<props, selectedLocation, currentMapStyle, searchTerm, filterCategory,
                 locations, mounted, filterDeps, locationsReplaced, fitPending, view, dom>>

-----------------------------------------------------------------------------
(* Event handlers.  An event is taken when no update is in progress. *)

\* line 186: onChange of the search box
ChangeSearch(value) ==
  /\ pc = "idle"
  /\ dom.searchBox
  /\ value # searchTerm
  /\ searchTerm' = value
  /\ Begin("search")
  /\ UNCHANGED <<props, selectedLocation, currentMapStyle, filterCategory,
                 filteredLocations, hooks, view, dom>>

\* line 201: onChange of the category select; value is '' or one of its options
ChangeCategory(value) ==
  /\ pc = "idle"
  /\ dom.filterBox
  /\ filterCategory' = IF value = "" THEN Null ELSE value
  /\ filterCategory' # filterCategory
  /\ Begin("category")
  /\ UNCHANGED <<props, selectedLocation, currentMapStyle, searchTerm,
                 filteredLocations, hooks, view, dom>>

\* lines 234-237: onChange of the style select
ChangeStyle(value) ==
  /\ pc = "idle"
  /\ value # dom.styleValue
  /\ LET selected == FindStyle(mapStyles, value)
     IN  IF selected # UndefinedStyle /\ selected # currentMapStyle
         THEN /\ currentMapStyle' = selected
              /\ Begin("style")
              /\ UNCHANGED <<props, selectedLocation, searchTerm, filterCategory,
                             filteredLocations, hooks, view, dom>>
         ELSE UNCHANGED vars

\* lines 276-280: click on a marker
ClickMarker(id) ==
  /\ pc = "idle"
  /\ selectedLocation # Number(id)
  /\ selectedLocation' = Number(id)
  /\ Begin("marker")
  /\ UNCHANGED <<props, currentMapStyle, searchTerm, filterCategory,
                 filteredLocations, hooks, view, dom>>

\* lines 258-263: the user drags or zooms the map; Leaflet moves the view
\* without React taking part
PanZoom ==
  /\ pc = "idle"
  /\ view # UserView
  /\ view' = UserView
  /\ UNCHANGED <<props, cells, hooks, pc, dom, history>>

-----------------------------------------------------------------------------
(* The parent renders the component again with another value of one prop *)

\* line 102: another array (of the same or of other contents), or none
SetLocations(p) ==
  /\ pc = "idle"
  /\ ~(p.omitted /\ locationsProp.omitted)
  /\ locationsProp' = p
  /\ locationsReplaced' = TRUE
  /\ Begin("locations")
  /\ UNCHANGED <<language, enableSearch, enableFilter, mapStylesProp, cells, locations,
                 mounted, filterDeps, filteredReplaced, filterPending, fitPending,
                 view, dom>>

\* SetLanguage for a component that resets the search with the language
SetLanguageClearsSearch(l, newArray) ==
  /\ pc = "idle"
  /\ l # language
  /\ language' = l
  /\ locationsReplaced' = newArray
  /\ searchTerm' = <<>>
  /\ Begin("language")
  /\ UNCHANGED <<locationsProp, enableSearch, enableFilter, mapStylesProp,
                 selectedLocation, currentMapStyle, filterCategory, filteredLocations,
                 locations, mounted, filterDeps, filteredReplaced, filterPending,
                 fitPending, view, dom>>

\* line 105; the parent passes the same list of locations, as the array it
\* passed before or (newArray) as another array of the same contents
SetLanguage(l, newArray) ==
  /\ pc = "idle"
  /\ l # language
  /\ language' = l
  /\ locationsReplaced' = newArray
  /\ Begin("language")
  /\ UNCHANGED <<locationsProp, enableSearch, enableFilter, mapStylesProp, cells,
                 locations, mounted, filterDeps, filteredReplaced, filterPending,
                 fitPending, view, dom>>

\* SetEnableSearch for a component that clears the search with its box
SetEnableSearchClears(b) ==
  /\ pc = "idle"
  /\ b # enableSearch
  /\ enableSearch' = b
  /\ searchTerm' = IF b THEN searchTerm ELSE <<>>
  /\ Begin("enableSearch")
  /\ UNCHANGED <<locationsProp, language, enableFilter, mapStylesProp,
                 selectedLocation, currentMapStyle, filterCategory, filteredLocations,
                 hooks, view, dom>>

\* line 106
SetEnableSearch(b) ==
  /\ pc = "idle"
  /\ b # enableSearch
  /\ enableSearch' = b
  /\ Begin("enableSearch")
  /\ UNCHANGED <<locationsProp, language, enableFilter, mapStylesProp, cells, hooks,
                 view, dom>>

\* line 107
SetEnableFilter(b) ==
  /\ pc = "idle"
  /\ b # enableFilter
  /\ enableFilter' = b
  /\ Begin("enableFilter")
  /\ UNCHANGED <<locationsProp, language, enableSearch, mapStylesProp, cells, hooks,
                 view, dom>>

\* line 108
SetMapStyles(m) ==
  /\ pc = "idle"
  /\ m # mapStylesProp
  /\ mapStylesProp' = m
  /\ Begin("mapStyles")
  /\ UNCHANGED <<locationsProp, language, enableSearch, enableFilter, cells, hooks,
                 view, dom>>

-----------------------------------------------------------------------------

UserEvent ==
  \/ \E value \in SearchTerms : ChangeSearch(value)
  \/ \E value \in Range(dom.categoryOptions) \cup {""} : ChangeCategory(value)
  \/ \E value \in {o.value : o \in Range(dom.styleOptions)} \cup {""} : ChangeStyle(value)
  \/ \E id \in {m.key : m \in Range(dom.markers)} : ClickMarker(id)
  \/ PanZoom

PropUpdate ==
  \/ \E p \in {LocationsOmitted} \cup {LocationsGiven(l) : l \in LocationLists} :
       SetLocations(p)
  \/ \E l \in Languages, newArray \in BOOLEAN : SetLanguage(l, newArray)
  \/ \E b \in BOOLEAN : SetEnableSearch(b)
  \/ \E b \in BOOLEAN : SetEnableFilter(b)
  \/ \E m \in MapStylesProps : SetMapStyles(m)

\* what React does by itself once something is scheduled
Update == Render \/ FitBoundsToLocations \/ FilterEffect

Next == UserEvent \/ PropUpdate \/ Update

Spec == Init /\ [][Next]_vars

\* React runs a scheduled render and the scheduled effects
FairSpec == Spec /\ WF_vars(Update)

-----------------------------------------------------------------------------
(* Properties *)

\* the last render is the current one: nothing is scheduled before the effects
Rendered == pc \in {"fitEffect", "filterEffect", "idle"}

\* t occurs in s as a contiguous piece
IsSubstring(t, s) == \E i, j \in 0..Len(s) : SubSeq(s, i + 1, j) = t

\* location l passes the search term and the selected category
Passes(l, term, cat) ==
  /\ \/ term = <<>>
     \/ \E field \in {l.name, l.nameEn, l.description, l.descriptionEn} :
          IsSubstring(ToLowerCase(term), ToLowerCase(field))
  /\ \/ cat = Null
     \/ l.category = cat

\* the k-th smallest element of a set of numbers
KthSmallest(S, k) == CHOOSE i \in S : Cardinality({j \in S : j <= i}) = k

\* out lists exactly the entries of in at the positions idx, in the order of in
IsSelection(out, in, idx) ==
  /\ Len(out) = Cardinality(idx)
  /\ \A k \in 1..Len(out) : out[k] = in[KthSmallest(idx, k)]

\* C1: once the update has been processed, the visible subset is exactly the
\* locations of the current input list, in input order, that pass the search
\* term (empty, or a case-insensitive substring of one of the four text
\* fields) and the selected category (none, or equal to it).
C1_VisibleIsFiltered ==
  pc = "idle" =>
    IsSelection(filteredLocations, locationsProp.val,
                {i \in 1..Len(locationsProp.val) :
                   Passes(locationsProp.val[i], searchTerm, filterCategory)})

\* both filters are set, each of them removes a location that the other one
\* keeps, and something remains
C1_Witness ==
  /\ pc = "idle"
  /\ searchTerm # <<>>
  /\ filterCategory # Null
  /\ filteredLocations # <<>>
  /\ \E l \in Range(locationsProp.val) :
       Passes(l, searchTerm, Null) /\ ~Passes(l, searchTerm, filterCategory)
  /\ \E l \in Range(locationsProp.val) :
       Passes(l, <<>>, filterCategory) /\ ~Passes(l, searchTerm, filterCategory)

\* position of the first entry of s that equals x
FirstIndex(s, x) == CHOOSE i \in 1..Len(s) : s[i] = x /\ \A j \in 1..(i - 1) : s[j] # x

\* opts lists the distinct non-empty categories of locs once each, in the
\* order in which they first occur in locs
IsFirstSeenDistinct(opts, locs) ==
  LET cats == [i \in 1..Len(locs) |-> locs[i].category]
  IN  /\ Range(opts) = Range(cats) \ {Undefined, ""}
      /\ Cardinality(Range(opts)) = Len(opts)
      /\ \A i, j \in 1..Len(opts) :
           i < j => FirstIndex(cats, opts[i]) < FirstIndex(cats, opts[j])

\* C2: whenever the category select is on screen, its options are the
\* distinct non-empty categories of the full locations prop in first-seen
\* order, whatever the search term, the selected category and the visible
\* subset are.
C2_OptionsAreCategoriesOfInput ==
  (Rendered /\ dom.filterBox) => IsFirstSeenDistinct(dom.categoryOptions, locationsProp.val)

\* the filters hide a whole category, a category occurs twice in the input,
\* and both categories are still offered
C2_Witness ==
  /\ pc = "idle"
  /\ dom.filterBox
  /\ Len(dom.categoryOptions) = 2
  /\ Len(locationsProp.val) = 3
  /\ searchTerm # <<>>
  /\ filterCategory # Null
  /\ Len(filteredLocations) = 1

Min(S) == CHOOSE x \in S : \A y \in S : x <= y
Max(S) == CHOOSE x \in S : \A y \in S : x >= y

\* the smallest box that contains every coordinate of V, corners as (lat, lng)
MinimalBox(V) ==
  LET lats == {V[i].coordinates[1] : i \in 1..Len(V)}
      lngs == {V[i].coordinates[2] : i \in 1..Len(V)}
  IN  [sw |-> <<Min(lats), Min(lngs)>>, ne |-> <<Max(lats), Max(lngs)>>]

\* C3: a change of the visible subset (and the first render) makes the fit
\* effect run on the next commit; when it runs on a non-empty subset the view
\* becomes the minimal box of its coordinates with the padding of 50, whatever
\* the view was; on an empty subset the view stays as it is.
C3_BoundsFit ==
  [][/\ (filteredLocations' # filteredLocations) => (pc' = "render" /\ filteredReplaced')
     /\ (pc = "render" /\ pc' = "fitEffect" /\ (filteredReplaced \/ ~mounted)) => fitPending'
     /\ (pc = "fitEffect" /\ pc' = "filterEffect") =>
          /\ (fitPending /\ filteredLocations # <<>>) =>
               /\ view'.kind = "fit"
               /\ view'.bounds = <<MinimalBox(filteredLocations), <<50, 50>>>>
          /\ (filteredLocations = <<>>) => view' = view
    ]_vars

\* after a search edit the fit has replaced the view the user had chosen, with
\* a box of more than one point
C3_Witness ==
  /\ lastEvent = "search"
  /\ fitReplaced = "user"
  /\ view.kind = "fit"
  /\ Len(filteredLocations) = 2
  /\ view.bounds[1] = MinimalBox(filteredLocations)
  /\ view.bounds[1].sw # view.bounds[1].ne

\* key and position of the markers on screen
MarkerPlaces(d) == [i \in 1..Len(d.markers) |-> <<d.markers[i].key, d.markers[i].position>>]

\* C4: from the selection of a style until its update is processed, the
\* search term, the selected category, the visible subset, the markers and the
\* view keep their values, fitBounds is not called, and the element tree
\* changes in the tile layer and the value of the style select only.
C4_StyleSwitchFrame ==
  [][(lastEvent' = "style" \/ lastEvent = "style") =>
       /\ searchTerm' = searchTerm
       /\ filterCategory' = filterCategory
       /\ filteredLocations' = filteredLocations
       /\ view' = view
       /\ fitReplaced' = "none"
       /\ dom'.markers = dom.markers
       /\ [dom' EXCEPT !.tile = dom.tile, !.styleValue = dom.styleValue] = dom
    ]_vars

\* a style switch has been rendered while the user's own view and a filtered,
\* non-empty set of markers are on screen
C4_Witness ==
  /\ lastEvent = "style"
  /\ pc = "filterEffect"
  /\ dom.tile.url = "carto-dark"
  /\ view = UserView
  /\ searchTerm # <<>>
  /\ dom.markers # <<>>
  /\ Len(filteredLocations) < Len(locationsProp.val)

\* C5: from a change of the language prop (the list of locations being the
\* same, in the same or in another array) until its update is processed, the
\* visible subset and the rendered markers (keys and positions) are the ones
\* from before the change.
C5_LanguageFrame ==
  [][(lastEvent' = "language" \/ lastEvent = "language") =>
       /\ filteredLocations' = filteredLocations
       /\ MarkerPlaces(dom') = MarkerPlaces(dom)
    ]_vars

\* the language changed to en under an active search, and the popup titles
\* on screen are the English names
C5_Witness ==
  /\ lastEvent = "language"
  /\ pc = "filterEffect"
  /\ language = "en"
  /\ searchTerm # <<>>
  /\ filteredLocations # <<>>
  /\ Len(filteredLocations) < Len(locationsProp.val)
  /\ \A i \in 1..Len(dom.markers) : dom.markers[i].title = filteredLocations[i].nameEn

\* C6: a change of enableSearch (enableFilter) leaves the search term (the
\* selected category) and the visible subset as they are, and while the
\* control is hidden every visible location still passes the term (category).
C6_HiddenControlKeepsFilter ==
  [][/\ (lastEvent' = "enableSearch" \/ lastEvent = "enableSearch") =>
          (searchTerm' = searchTerm /\ filteredLocations' = filteredLocations)
     /\ (lastEvent' = "enableFilter" \/ lastEvent = "enableFilter") =>
          (filterCategory' = filterCategory /\ filteredLocations' = filteredLocations)
     /\ (pc' = "idle" /\ ~enableSearch') =>
          \A l \in Range(filteredLocations') : Passes(l, searchTerm', Null)
     /\ (pc' = "idle" /\ ~enableFilter') =>
          \A l \in Range(filteredLocations') : Passes(l, <<>>, filterCategory')
    ]_vars

\* both controls are hidden while a term and a category are set, and each of
\* the two still removes a location
C6_Witness ==
  /\ pc = "idle"
  /\ ~enableSearch
  /\ ~enableFilter
  /\ ~dom.searchBox
  /\ ~dom.filterBox
  /\ searchTerm # <<>>
  /\ filterCategory # Null
  /\ \E l \in Range(locationsProp.val) : ~Passes(l, searchTerm, Null)
  /\ \E l \in Range(locationsProp.val) : ~Passes(l, <<>>, filterCategory)

\* number of gold stars in a star row
Filled(stars) == Cardinality({i \in 1..Len(stars) : stars[i]})

Clamp(r) == IF r < 0 THEN 0 ELSE IF r > StarSlots THEN StarSlots ELSE r

\* C7 as stated: the popup of a location with a rating r shows r gold stars,
\* also for r outside 1..5, and a location without rating shows no star row.
C7_FilledIsRawRating ==
  Rendered =>
    \A i \in 1..Len(dom.markers) :
      LET r == filteredLocations[i].rating
      IN  IF r.present THEN Filled(dom.markers[i].stars) = r.value
          ELSE dom.markers[i].stars = <<>>

\* C7 amended: a location with an integer rating r other than 0 shows a row
\* of five stars of which the first min(max(r, 0), 5) are gold; a location
\* without rating or with rating 0 shows no star row.
C7_FilledIsClampedRating ==
  Rendered =>
    \A i \in 1..Len(dom.markers) :
      LET r == filteredLocations[i].rating
          stars == dom.markers[i].stars
      IN  IF r.present /\ r.value # 0
          THEN /\ Len(stars) = StarSlots
               /\ \A k \in 1..StarSlots : stars[k] <=> (k <= Clamp(r.value))
          ELSE stars = <<>>

\* popups with ratings 7 and -1 and without rating are on screen
C7_Witness ==
  /\ pc = "idle"
  /\ \E i \in 1..Len(dom.markers) :
       filteredLocations[i].rating = Rating(7) /\ Filled(dom.markers[i].stars) = 5
  /\ \E i \in 1..Len(dom.markers) :
       filteredLocations[i].rating = Rating(-1) /\ Filled(dom.markers[i].stars) = 0
  /\ \E i \in 1..Len(dom.markers) :
       filteredLocations[i].rating = NoRating /\ dom.markers[i].stars = <<>>

\* C8: whatever happens, the component gets again and again to a state in
\* which no render and no effect is scheduled.
C8_Quiesces == []<>(pc \in {"idle", "crashed"})

\* C9: the selected map style is an entry of the current catalog.
C9_StyleInCatalog == currentMapStyle \in Range(mapStyles)

\* C10: once an update has been processed, the selected category is null or
\* one of the categories the option list offers for the current locations.
C10_CategoryIsOffered ==
  pc = "idle" =>
    (filterCategory = Null \/ filterCategory \in Range(CategoryOptions(locationsProp.val)))

====
